---- MODULE Spec2Model ----
(***************************************************************************)
(* The real-time audio/video session bridge of the Ebo client: the two     *)
(* voice-mode components LiveMode (src/components/LiveMode.tsx) and        *)
(* EboLens (src/components/EboLens.tsx), and the App that mounts them.     *)
(*                                                                         *)
(* The host is single-threaded: every action below is one task of the     *)
(* event loop (an effect, a device or network callback, a timer, the      *)
(* continuation of an await that waits for another task).  An await of an *)
(* already settled promise continues in a microtask, before any other     *)
(* task, and is therefore part of the same action.                        *)
(*                                                                         *)
(* Units.  A sample s in [-1, 1] is the integer s * Scale.  Time is        *)
(* counted in output sample periods (1/24000 s), so the duration of an    *)
(* AudioBuffer is its number of samples.  Base64 text is a sequence of    *)
(* sextets 0..63, Pad for '=' and Junk for a character outside the        *)
(* alphabet.                                                               *)
(***************************************************************************)
EXTENDS Integers, Sequences, FiniteSets, TLC

\* ------------------------------------------------------------------ bounds
MaxInst == 2        \* instances mounted over a behaviour
MaxEvents == 3      \* size of the environment's input (frames, fragments, calls, ticks)
MaxBatch == 2       \* function calls in one tool-call batch
MaxSamples == 2     \* samples in one microphone frame or audio fragment
MaxTime == 2        \* playback device clock

\* --------------------------------------------------------------- constants
Scale == 65536
Pad == 64
Junk == 65

Components == {"LiveMode", "EboLens"}

\* ------------------------------------------------------------ sequences
RECURSIVE Concat(_)
Concat(ss) == IF ss = <<>> THEN <<>> ELSE Head(ss) \o Concat(Tail(ss))

RECURSIVE SeqsUpTo(_, _)
SeqsUpTo(S, n) ==
  IF n = 0 THEN {<<>>}
  ELSE LET shorter == SeqsUpTo(S, n - 1)
       IN  shorter \cup {Append(s, x) : s \in {t \in shorter : Len(t) = n - 1}, x \in S}

Max(a, b) == IF a >= b THEN a ELSE b

\* ------------------------------------------------- 16-bit PCM and base64
\* JavaScript's Number -> Int16 conversion of the typed-array store
\* int16[i] = x: truncate toward zero, then wrap modulo 2^16.
ToInt16(num, den) ==
  LET t == IF num >= 0 THEN num \div den ELSE -((-num) \div den)
      m == t % 65536
  IN  IF m >= 32768 THEN m - 65536 ELSE m

\* The two bytes of an Int16 as Uint8Array(int16.buffer) shows them
\* (little-endian, two's complement).
Int16Bytes(v) == LET u == v % 65536 IN <<u % 256, u \div 256>>

\* new Int16Array(bytes.buffer): one element per byte pair.
BytesInt16(lo, hi) == LET u == lo + 256 * hi IN IF u >= 32768 THEN u - 65536 ELSE u

\* btoa over the bytes of a Uint8Array.
RECURSIVE encode(_)
encode(bytes) ==
  IF Len(bytes) = 0 THEN <<>>
  ELSE IF Len(bytes) = 1
       THEN <<bytes[1] \div 4, (bytes[1] % 4) * 16, Pad, Pad>>
  ELSE IF Len(bytes) = 2
       THEN <<bytes[1] \div 4, (bytes[1] % 4) * 16 + bytes[2] \div 16,
              (bytes[2] % 16) * 4, Pad>>
  ELSE <<bytes[1] \div 4, (bytes[1] % 4) * 16 + bytes[2] \div 16,
         (bytes[2] % 16) * 4 + bytes[3] \div 64, bytes[3] % 64>>
       \o encode(SubSeq(bytes, 4, Len(bytes)))

\* atob (forgiving-base64 decode): padding is stripped from text whose
\* length is a multiple of 4; text of length 1 mod 4 or holding a character
\* outside the alphabet throws.
RECURSIVE Sextets2Bytes(_)
Sextets2Bytes(t) ==
  IF Len(t) = 0 THEN <<>>
  ELSE IF Len(t) = 2 THEN <<t[1] * 4 + t[2] \div 16>>
  ELSE IF Len(t) = 3 THEN <<t[1] * 4 + t[2] \div 16, (t[2] % 16) * 16 + t[3] \div 4>>
  ELSE <<t[1] * 4 + t[2] \div 16, (t[2] % 16) * 16 + t[3] \div 4, (t[3] % 4) * 64 + t[4]>>
       \o Sextets2Bytes(SubSeq(t, 5, Len(t)))

atob(text) ==
  LET n == Len(text)
      pads == IF n % 4 = 0 /\ n > 0
              THEN (IF text[n] = Pad THEN (IF text[n - 1] = Pad THEN 2 ELSE 1) ELSE 0)
              ELSE 0
      body == SubSeq(text, 1, n - pads)
  IN  IF Len(body) % 4 = 1 \/ \E k \in 1..Len(body) : body[k] \notin 0..63
      THEN [ok |-> FALSE, bytes |-> <<>>]
      ELSE [ok |-> TRUE, bytes |-> Sextets2Bytes(body)]

\* createBlob (EboLens) and createAudioBlob (LiveMode) are the same code.
\* data[k] * 32768 is the sample's integer times 32768 / Scale.
createBlob(data) ==
  [data |-> encode(Concat([k \in 1..Len(data) |-> Int16Bytes(ToInt16(data[k], Scale \div 32768))])),
   mimeType |-> "audio/pcm;rate=16000"]

\* decodeAudioData that drops a trailing odd byte instead of throwing.
decodeAudioData_lenient(base64) ==
  LET bin == atob(base64)
      n == Len(bin.bytes)
  IN  IF ~bin.ok
      THEN [ok |-> FALSE, channelData |-> <<>>, duration |-> 0]
      ELSE [ok |-> TRUE,
            channelData |-> [k \in 1..(n \div 2) |->
                               BytesInt16(bin.bytes[2 * k - 1], bin.bytes[2 * k]) * (Scale \div 32768)],
            duration |-> n \div 2]

\* decodeAudioData: atob, Int16Array over the bytes (a RangeError when their
\* count is odd), one float per element.  duration = length / 24000 s.
decodeAudioData(base64) ==
  LET bin == atob(base64)
      n == Len(bin.bytes)
  IN  IF ~bin.ok \/ n % 2 # 0
      THEN [ok |-> FALSE, channelData |-> <<>>, duration |-> 0]
      ELSE [ok |-> TRUE,
            channelData |-> [k \in 1..(n \div 2) |->
                               BytesInt16(bin.bytes[2 * k - 1], bin.bytes[2 * k]) * (Scale \div 32768)],
            duration |-> n \div 2]

\* ------------------------------------------------------------------- state
VARIABLES
  comp,     \* the voice-mode component the App mounts in this behaviour
  inst,     \* the state of the instance mounted last (see NewInst)
  mounts,   \* instances mounted so far
  earlier,  \* what the instances mounted before it still hold open
  events,   \* size of the environment's input so far
  last      \* the step just taken

vars == <<comp, inst, mounts, earlier, events, last>>

\* What a callback did in the step just taken (cleared by the next step).
NoTrace ==
  [issued |-> <<>>,    \* sessionPromise.then(...) calls made, in order
   out |-> <<>>,       \* sends invoked on the session, in order
   started |-> <<>>,   \* source.start calls
   handler |-> <<>>,   \* the onmessage call that ran: <<[msg, active, state]>>
   frame |-> <<>>,     \* the frame given to onaudioprocess: <<[data, active]>>
   cleanup |-> <<>>,   \* the statements the effect cleanup executed
   downloads |-> <<>>, \* file names offered for download (a.click())
   blobs |-> <<>>,     \* the blobs offered: <<[recorder, chunks]>>
   threw |-> FALSE]    \* an exception left the callback

\* One instance of the component: the closure variables and refs of its
\* effect, its React state and the platform objects it created.
NewInst ==
  [life |-> "unborn",          \* "active": isActive / mountedRef.current is true
   gum |-> "none",             \* the getUserMedia promise
   stream |-> "none",          \* the tracks of the MediaStream it resolved to
   streamRef |-> FALSE,        \* streamRef.current is set
   inputCtx |-> "none",        \* inputCtxRef / inputContextRef
   outputCtx |-> "none",       \* outputCtxRef / outputContextRef
   promise |-> "none",         \* sessionPromise
   link |-> "none",            \* the session handle: "open" or "closed"
   opened |-> FALSE,           \* onopen has been delivered
   processor |-> FALSE,        \* processor.onaudioprocess is attached
   status |-> "",
   thenQ |-> <<>>,             \* sessionPromise.then callbacks not yet run
   now |-> 0,                  \* outputCtx.currentTime
   nextStartTime |-> 0,        \* nextStartTimeRef.current
   sources |-> <<>>,           \* EboLens: started sources whose onended is due
   lastSource |-> <<>>,        \* the source started last: <<[start, duration]>>
   navData |-> FALSE,          \* LiveMode: navData is non-null
   generatedImage |-> FALSE,   \* LiveMode: generatedImage is non-null
   isAnalyzing |-> FALSE,      \* LiveMode
   susp |-> <<>>,              \* LiveMode: onmessage calls waiting for toBlob
   isCapturing |-> FALSE,      \* EboLens
   capTimers |-> 0,            \* EboLens: pending setIsCapturing(false) timers
   isRecording |-> FALSE,      \* EboLens
   isAiSpeaking |-> FALSE,     \* EboLens
   recorders |-> <<>>,         \* EboLens: state of each MediaRecorder of startRec
   videoChunks |-> <<>>,       \* EboLens: videoChunksRef.current (the recorder of each chunk)
   frames |-> 0,               \* frames delivered to onaudioprocess so far
   audioOut |-> 0,             \* audio packets sent to the session so far
   trace |-> NoTrace]

\* Instances share no ref and no closure variable, so the callbacks of an
\* unmounted instance cannot change a later one: the model follows the
\* instance mounted last and keeps, of the earlier ones, the resources they
\* held open when the next instance was mounted.
NothingOpen == [session |-> FALSE, stream |-> FALSE, inputCtx |-> FALSE, outputCtx |-> FALSE]

Init ==
  /\ comp \in Components
  /\ inst = NewInst
  /\ mounts = 0
  /\ earlier = NothingOpen
  /\ events = 0
  /\ last = "init"

isActive(s) == s.life = "active"

Quiet(s) == [s EXCEPT !.trace = NoTrace]

\* The instance takes the step op, which turns its state into new.
Step(op, new) ==
  /\ inst' = new
  /\ last' = op
  /\ UNCHANGED comp

\* A React state setter; it does nothing once the component is unmounted.
SetState(s, field, value) ==
  IF s.life = "active" THEN [s EXCEPT ![field] = value] ELSE s

\* s.sendRealtimeInput / s.sendToolResponse on the resolved session.
Invoke(s, pkt) ==
  [s EXCEPT !.trace.out = Append(@, [pkt |-> pkt, torn |-> s.life = "torn",
                                     closed |-> s.link = "closed"]),
            !.audioOut = IF pkt.media.mimeType = "audio/pcm;rate=16000"
                         THEN @ + 1 ELSE @]

RECURSIVE InvokeAll(_, _)
InvokeAll(s, pkts) ==
  IF pkts = <<>> THEN s ELSE InvokeAll(Invoke(s, Head(pkts)), Tail(pkts))

\* Then with the waiting callbacks run newest first.
Then_newestFirst(s, pkt) ==
  LET t == [s EXCEPT !.trace.issued = Append(@, pkt)]
  IN  IF s.promise = "resolved" THEN Invoke(t, pkt)
      ELSE [t EXCEPT !.thenQ = <<pkt>> \o @]

\* sessionPromise.then(s => s.send...(pkt)): runs at once (next microtask)
\* when the promise is resolved, otherwise waits for the resolution.
Then(s, pkt) ==
  LET t == [s EXCEPT !.trace.issued = Append(@, pkt)]
  IN  IF s.promise = "resolved" THEN Invoke(t, pkt)
      ELSE [t EXCEPT !.thenQ = Append(@, pkt)]

NoMedia == [data |-> <<>>, mimeType |-> ""]

\* seq: the number of the frame among those of the instance.
AudioPacket(frame, seq) ==
  [kind |-> "realtimeInput", media |-> createBlob(frame), seq |-> seq,
   functionResponses |-> <<>>]
ImagePacket(id) ==
  [kind |-> "realtimeInput", media |-> [data |-> <<"jpeg", id>>, mimeType |-> "image/jpeg"],
   seq |-> 0, functionResponses |-> <<>>]
ToolResponse(responses) ==
  [kind |-> "toolResponse", media |-> NoMedia, seq |-> 0, functionResponses |-> responses]

\* ------------------------------------------------------------- lifecycle
\* ai.live.connect(...): the session handle exists, its promise is pending.
Connect(s) == [s EXCEPT !.promise = "pending", !.link = "open"]

\* useEffect body up to the first await.  LiveMode creates both audio
\* contexts before it asks for the device stream; EboLens asks first.
LiveMode_mount(s) ==
  [s EXCEPT !.life = "active", !.status = "EBO ONLINE",
            !.inputCtx = "open", !.outputCtx = "open", !.gum = "pending"]

EboLens_mount(s) ==
  [s EXCEPT !.life = "active", !.status = "LINKING", !.gum = "pending"]

\* The App shows one voice-mode component at a time: a new instance mounts
\* only after the previous one was unmounted.
StillOpen(s) ==
  [session |-> earlier.session \/ s.link = "open",
   stream |-> earlier.stream \/ s.stream = "running",
   inputCtx |-> earlier.inputCtx \/ s.inputCtx = "open",
   outputCtx |-> earlier.outputCtx \/ s.outputCtx = "open"]

Mount ==
  /\ inst.life \in {"unborn", "torn"}
  /\ mounts < MaxInst
  /\ mounts' = mounts + 1
  /\ earlier' = StillOpen(inst)
  /\ Step("mount", IF comp = "LiveMode" THEN LiveMode_mount(NewInst)
                   ELSE EboLens_mount(NewInst))
  /\ UNCHANGED events

\* Continuation of `await getUserMedia` when it resolves.
LiveMode_gotStream(s) ==
  Connect([s EXCEPT !.gum = "resolved", !.stream = "running", !.streamRef = TRUE])

EboLens_gotStream(s) ==
  LET got == [s EXCEPT !.gum = "resolved", !.stream = "running"]
  IN  IF ~isActive(s) THEN got
      ELSE Connect([got EXCEPT !.streamRef = TRUE,
                               !.inputCtx = "open", !.outputCtx = "open"])

GumResolve ==
  /\ inst.gum = "pending"
  /\ Step("gotStream", IF comp = "LiveMode" THEN LiveMode_gotStream(Quiet(inst))
                          ELSE EboLens_gotStream(Quiet(inst)))
  /\ UNCHANGED <<mounts, earlier, events>>

\* The catch block without the status report.
LiveMode_catch_silent(s) == [s EXCEPT !.gum = "rejected"]

\* The catch block of init / initARSession.
LiveMode_catch(s) ==
  LET r == [s EXCEPT !.gum = "rejected"]
  IN  IF isActive(s) THEN [r EXCEPT !.status = "HW ERROR"] ELSE r

EboLens_catch(s) ==
  LET r == [s EXCEPT !.gum = "rejected"]
  IN  IF isActive(s) THEN [r EXCEPT !.status = "HW_ERROR"] ELSE r

GumReject ==
  /\ inst.gum = "pending"
  /\ Step("catch", IF comp = "LiveMode" THEN LiveMode_catch(Quiet(inst))
                      ELSE EboLens_catch(Quiet(inst)))
  /\ UNCHANGED <<mounts, earlier, events>>

\* The effect cleanup (the same statements in both components).
Cleanup(s) ==
  LET s1 == [s EXCEPT !.life = "torn", !.trace.cleanup = Append(@, "inactive")]
      s2 == IF s1.streamRef
            THEN [s1 EXCEPT !.stream = "stopped", !.trace.cleanup = Append(@, "stopTracks")]
            ELSE s1
      s3 == IF s2.inputCtx # "none"
            THEN [s2 EXCEPT !.inputCtx = "closed", !.trace.cleanup = Append(@, "closeInput")]
            ELSE s2
      s4 == IF s3.outputCtx # "none"
            THEN [s3 EXCEPT !.outputCtx = "closed", !.trace.cleanup = Append(@, "closeOutput")]
            ELSE s3
  IN  s4

Unmount ==
  /\ inst.life = "active"
  /\ Step("cleanup", Cleanup(Quiet(inst)))
  /\ UNCHANGED <<mounts, earlier, events>>

\* The waiting then-callbacks run last registered first.
Resolved_newestFirst(s) ==
  InvokeAll([s EXCEPT !.promise = "resolved", !.thenQ = <<>>],
            [k \in 1..Len(s.thenQ) |-> s.thenQ[Len(s.thenQ) + 1 - k]])

\* The session promise resolves: the waiting then-callbacks run in order.
Resolved(s) == InvokeAll([s EXCEPT !.promise = "resolved", !.thenQ = <<>>], s.thenQ)

SessionResolve ==
  /\ inst.promise = "pending"
  /\ Step("resolve", Resolved(Quiet(inst)))
  /\ UNCHANGED <<mounts, earlier, events>>

\* ------------------------------------------------------ session callbacks
LiveMode_onopen(s) ==
  IF ~isActive(s) THEN [s EXCEPT !.opened = TRUE]
  ELSE [s EXCEPT !.opened = TRUE, !.status = "SYSTEM READY", !.processor = TRUE]

EboLens_onopen(s) ==
  IF ~isActive(s) THEN [s EXCEPT !.opened = TRUE]
  ELSE [s EXCEPT !.opened = TRUE, !.status = "ACTIVE", !.processor = TRUE]

OnOpen ==
  /\ inst.link = "open"
  /\ ~inst.opened
  /\ Step("onopen", IF comp = "LiveMode" THEN LiveMode_onopen(Quiet(inst))
                       ELSE EboLens_onopen(Quiet(inst)))
  /\ UNCHANGED <<mounts, earlier, events>>

LiveMode_onclose(s) ==
  LET c == [s EXCEPT !.link = "closed"]
  IN  IF isActive(s) THEN [c EXCEPT !.status = "OFFLINE"] ELSE c

\* onclose that opens a new session in place of the closed one.
EboLens_onclose_reconnects(s) ==
  Connect(IF isActive(s) THEN [s EXCEPT !.status = "LINK_CLOSED"] ELSE s)

EboLens_onclose(s) ==
  LET c == [s EXCEPT !.link = "closed"]
  IN  IF isActive(s) THEN [c EXCEPT !.status = "LINK_CLOSED"] ELSE c

\* The remote end closes the session.
OnClose ==
  /\ inst.link = "open"
  /\ Step("onclose", IF comp = "LiveMode" THEN LiveMode_onclose(Quiet(inst))
                        ELSE EboLens_onclose(Quiet(inst)))
  /\ UNCHANGED <<mounts, earlier, events>>

LiveMode_onerror(s) == IF isActive(s) THEN [s EXCEPT !.status = "ERROR"] ELSE s

EboLens_onerror(s) == IF isActive(s) THEN [s EXCEPT !.status = "LINK_LOST"] ELSE s

OnError ==
  /\ inst.link = "open"
  /\ Step("onerror", IF comp = "LiveMode" THEN LiveMode_onerror(Quiet(inst))
                        ELSE EboLens_onerror(Quiet(inst)))
  /\ UNCHANGED <<mounts, earlier, events>>

\* ---------------------------------------------------------------- capture
\* Microphone frames: one per length, of the samples 0.5, -1, 0.5, ...
Frames == {[k \in 1..n |-> IF k % 2 = 1 THEN Scale \div 2 ELSE -Scale] : n \in 1..MaxSamples}

\* processor.onaudioprocess.  LiveMode guards only setVolume with
\* mountedRef; EboLens returns at once when isActive is false.
LiveMode_onaudioprocess(s, frame) ==
  Then([s EXCEPT !.trace.frame = <<[data |-> frame, active |-> isActive(s)]>>,
                 !.frames = @ + 1],
       AudioPacket(frame, s.frames + 1))

EboLens_onaudioprocess(s, frame) ==
  IF ~isActive(s) THEN [s EXCEPT !.trace.frame = <<[data |-> frame, active |-> FALSE]>>,
                                  !.frames = @ + 1]
  ELSE Then([s EXCEPT !.trace.frame = <<[data |-> frame, active |-> TRUE]>>,
                      !.frames = @ + 1],
            AudioPacket(frame, s.frames + 1))

\* The capture device delivers a frame to the processor.  close() of the
\* audio context is asynchronous, so a frame may still be delivered after
\* the cleanup ran.
OnAudioProcess(frame) ==
  /\ inst.processor
  /\ events < MaxEvents
  /\ events' = events + 1
  /\ UNCHANGED <<mounts, earlier>>
  /\ Step("onaudioprocess",
          IF comp = "LiveMode" THEN LiveMode_onaudioprocess(Quiet(inst), frame)
          ELSE EboLens_onaudioprocess(Quiet(inst), frame))

\* --------------------------------------------------------------- playback
\* Schedule without the max: the source starts at the cursor even when the
\* device clock has passed it.
Schedule_ignoresClock(s, buffer) ==
  LET startTime == s.nextStartTime
      source == [start |-> startTime, duration |-> buffer.duration]
  IN  [s EXCEPT !.trace.started = Append(@, [start |-> startTime,
                                             duration |-> buffer.duration,
                                             at |-> s.now, cursor |-> s.nextStartTime,
                                             prev |-> s.lastSource]),
                !.lastSource = <<source>>,
                !.sources = IF comp = "EboLens" THEN Append(@, source) ELSE @,
                !.nextStartTime = startTime + buffer.duration]

\* Schedule that starts every source at the device time, whatever the
\* cursor says.
Schedule_fromClock(s, buffer) ==
  LET startTime == s.now
      source == [start |-> startTime, duration |-> buffer.duration]
  IN  [s EXCEPT !.trace.started = Append(@, [start |-> startTime,
                                             duration |-> buffer.duration,
                                             at |-> s.now, cursor |-> s.nextStartTime,
                                             prev |-> s.lastSource]),
                !.lastSource = <<source>>,
                !.sources = IF comp = "EboLens" THEN Append(@, source) ELSE @,
                !.nextStartTime = startTime + buffer.duration]

\* Schedule with the start time kept in a local: the cursor advances from
\* its old value, not from the start time.
Schedule_staleCursor(s, buffer) ==
  LET startTime == Max(s.nextStartTime, s.now)
      source == [start |-> startTime, duration |-> buffer.duration]
  IN  [s EXCEPT !.trace.started = Append(@, [start |-> startTime,
                                             duration |-> buffer.duration,
                                             at |-> s.now, cursor |-> s.nextStartTime,
                                             prev |-> s.lastSource]),
                !.lastSource = <<source>>,
                !.sources = IF comp = "EboLens" THEN Append(@, source) ELSE @,
                !.nextStartTime = s.nextStartTime + buffer.duration]

\* nextStartTime = max(nextStartTime, ctx.currentTime); source.start(it);
\* nextStartTime += buffer.duration.
Schedule(s, buffer) ==
  LET startTime == Max(s.nextStartTime, s.now)
      source == [start |-> startTime, duration |-> buffer.duration]
  IN  [s EXCEPT !.trace.started = Append(@, [start |-> startTime,
                                             duration |-> buffer.duration,
                                             at |-> s.now, cursor |-> s.nextStartTime,
                                             prev |-> s.lastSource]),
                !.lastSource = <<source>>,
                !.sources = IF comp = "EboLens" THEN Append(@, source) ELSE @,
                !.nextStartTime = startTime + buffer.duration]

\* The playback device clock advances.
Tick(d) ==
  /\ inst.outputCtx = "open"
  /\ inst.now + d <= MaxTime
  /\ events < MaxEvents
  /\ events' = events + 1
  /\ UNCHANGED <<mounts, earlier>>
  /\ Step("tick", [Quiet(inst) EXCEPT !.now = @ + d])

\* EboLens: source.onended of the oldest source still to end.
EboLens_onended(s) == SetState([s EXCEPT !.sources = Tail(@)], "isAiSpeaking", FALSE)

BufferEnded ==
  /\ inst.outputCtx = "open"
  /\ inst.sources # <<>>
  /\ Head(inst.sources).start + Head(inst.sources).duration <= inst.now
  /\ Step("onended", EboLens_onended(Quiet(inst)))
  /\ UNCHANGED <<mounts, earlier, events>>

\* ------------------------------------------------------- inbound messages
ToolNames ==
  IF comp = "LiveMode"
  THEN {"startNavigation", "analyzeSurroundings", "generateHologram", "stopSystem", "other"}
  ELSE {"capture_and_analyze", "record_video_clip", "other"}

\* A function call as the session sends it: its name and args.duration
\* (0: the call gives no duration).
Calls ==
  {[name |-> n, duration |-> 0] : n \in ToolNames}
  \cup {[name |-> n, duration |-> 5] : n \in ToolNames \cap {"record_video_clip"}}

\* Audio payloads the session may deliver: well-formed fragments of
\* 1..MaxSamples samples, text that is not base64, and base64 of an odd
\* number of bytes.
GoodAudio == {encode(Concat([k \in 1..n |-> Int16Bytes(k)])) : n \in 1..MaxSamples}
BadAudio == {<<Junk, 0, 0, 0>>, encode(<<1, 0, 2>>)}

\* A LiveServerMessage: serverContent.modelTurn.parts[0].inlineData.data
\* (<<>> when absent) and toolCall.functionCalls.
Messages ==
  [audio : GoodAudio \cup BadAudio \cup {<<>>}, toolCall : {TRUE},
   calls : SeqsUpTo(Calls, MaxBatch)]
  \cup [audio : GoodAudio \cup BadAudio \cup {<<>>}, toolCall : {FALSE}, calls : {<<>>}]

\* The size of a message: its audio fragment, its batch and each call.
Size(msg) ==
  Max(1, (IF msg.audio # <<>> THEN 1 ELSE 0) + (IF msg.toolCall THEN 1 ELSE 0)
         + Len(msg.calls))

\* The message as the handler sees it; the session gives every call an id.
Arrived(msg) ==
  [audio |-> msg.audio, toolCall |-> msg.toolCall,
   functionCalls |-> [k \in 1..Len(msg.calls) |->
                        [id |-> <<events, k>>, name |-> msg.calls[k].name,
                         args |-> [duration |-> msg.calls[k].duration]]]]

\* The onmessage call for msg is in state st when the step ends:
\* "ignored", "suspended", "done" or "threw".
Ran(s, msg, st) ==
  [s EXCEPT !.trace.handler = <<[msg |-> msg, state |-> st]>>,
            !.trace.threw = (st = "threw")]

\* LiveMode onmessage, audio branch (after the tool calls).
LiveMode_audio(s, msg) ==
  LET buffer == decodeAudioData(msg.audio)
  IN  IF msg.audio # <<>> /\ s.outputCtx # "none"
      THEN (IF buffer.ok THEN Ran(Schedule(s, buffer), msg, "done")
            ELSE Ran(s, msg, "threw"))
      ELSE Ran(s, msg, "done")

\* LiveMode_ack with a rejection for the names no branch handles.
LiveMode_ack_rejectsUnknown(fc) ==
  [id |-> fc.id, name |-> fc.name,
   response |-> IF fc.name \in {"startNavigation", "analyzeSurroundings",
                                "generateHologram", "stopSystem"}
                THEN [status |-> "ok"] ELSE [status |-> "error"]]

\* let result = { status: "ok" }; functionResponses.push({id, name, response: result}).
LiveMode_ack(fc) == [id |-> fc.id, name |-> fc.name, response |-> [status |-> "ok"]]

\* startNavigation without setGeneratedImage(null).
LiveMode_startNavigation_keepsImage(s) ==
  SetState(SetState(s, "navData", TRUE), "isAnalyzing", FALSE)

\* The branches of the loop that only set overlay state.
LiveMode_startNavigation(s) ==
  SetState(SetState(SetState(s, "navData", TRUE), "generatedImage", FALSE),
           "isAnalyzing", FALSE)

LiveMode_generateHologram(s) ==
  SetState(SetState(SetState(s, "navData", FALSE), "isAnalyzing", FALSE),
           "generatedImage", TRUE)

LiveMode_stopSystem(s) ==
  SetState(SetState(SetState(s, "navData", FALSE), "generatedImage", FALSE),
           "isAnalyzing", FALSE)

\* LiveMode onmessage, the loop over msg.toolCall.functionCalls from the
\* k-th call on.  analyzeSurroundings awaits canvas.toBlob: the handler is
\* parked in susp until SnapshotDone.
RECURSIVE LiveMode_calls(_, _, _, _)
LiveMode_calls(s, msg, k, responses) ==
  LET fc == msg.functionCalls[k]
      next == Append(responses, LiveMode_ack(fc))
  IN  IF k > Len(msg.functionCalls)
      THEN LiveMode_audio(Then(s, ToolResponse(responses)), msg)
      ELSE CASE fc.name = "startNavigation" ->
                  LiveMode_calls(LiveMode_startNavigation(s), msg, k + 1, next)
             [] fc.name = "analyzeSurroundings" ->
                  LET a == SetState(SetState(s, "isAnalyzing", TRUE), "navData", FALSE)
                  IN  IF isActive(a)   \* videoRef.current && canvasRef.current
                      THEN Ran([a EXCEPT !.susp = Append(@, [msg |-> msg, k |-> k,
                                                             responses |-> responses])],
                               msg, "suspended")
                      ELSE LiveMode_calls(a, msg, k + 1, next)
             [] fc.name = "generateHologram" ->
                  LiveMode_calls(LiveMode_generateHologram(s), msg, k + 1, next)
             [] fc.name = "stopSystem" ->
                  LiveMode_calls(LiveMode_stopSystem(s), msg, k + 1, next)
             [] OTHER -> LiveMode_calls(s, msg, k + 1, next)

LiveMode_onmessage(s, msg) ==
  IF ~isActive(s) THEN Ran(s, msg, "ignored")
  ELSE IF msg.toolCall THEN LiveMode_calls(s, msg, 1, <<>>)
  ELSE LiveMode_audio(s, msg)

\* canvas.toBlob and blobToBase64 complete for the h-th parked handler.  A
\* null blob (a canvas without pixels) makes blobToBase64 reject.
LiveMode_snapshotDone(s, h, ok) ==
  LET c == s.susp[h]
      rest == [s EXCEPT !.susp = SubSeq(@, 1, h - 1) \o SubSeq(@, h + 1, Len(@))]
      fc == c.msg.functionCalls[c.k]
  IN  IF ~ok THEN Ran(rest, c.msg, "threw")
      ELSE LiveMode_calls(Then(rest, ImagePacket(fc.id)), c.msg, c.k + 1,
                          Append(c.responses, LiveMode_ack(fc)))

SnapshotDone(h, ok) ==
  /\ h \in 1..Len(inst.susp)
  /\ Step("snapshotDone", LiveMode_snapshotDone(Quiet(inst), h, ok))
  /\ UNCHANGED <<mounts, earlier, events>>

DefaultSec == 10

\* The isRecording that startRec reads: onmessage was created by the effect
\* of the first render (dependency list []), so it calls the startRec of
\* that render, whose isRecording is the initial useState(false).
startRec_isRecording == FALSE

\* startRec(sec): a new MediaRecorder and the timer that stops it after
\* sec seconds.
startRec(s, sec) ==
  IF startRec_isRecording \/ ~s.streamRef THEN s
  ELSE [SetState(s, "isRecording", TRUE)
          EXCEPT !.videoChunks = <<>>,
                 !.recorders = Append(@, [state |-> "recording", sec |-> sec])]

\* responses.push({ id: fc.id, name: fc.name, response: { ok: true } }).
EboLens_ack(fc) == [id |-> fc.id, name |-> fc.name, response |-> [ok |-> TRUE]]

\* EboLens onmessage, the loop over msg.toolCall.functionCalls.
RECURSIVE EboLens_calls(_, _, _, _)
EboLens_calls(s, msg, k, responses) ==
  LET fc == msg.functionCalls[k]
      c1 == SetState(s, "isCapturing", TRUE)
      c2 == IF isActive(c1)   \* hiddenVideoRef.current && canvasRef.current
            THEN Then(c1, ImagePacket(fc.id)) ELSE c1
      s1 == IF fc.name = "capture_and_analyze"
            THEN [c2 EXCEPT !.capTimers = @ + 1] ELSE s
      \* startRec((fc.args as any)?.duration || 10)
      s2 == IF fc.name = "record_video_clip"
            THEN startRec(s1, IF fc.args.duration # 0 THEN fc.args.duration ELSE DefaultSec)
            ELSE s1
  IN  IF k > Len(msg.functionCalls)
      THEN Ran(Then(s, ToolResponse(responses)), msg, "done")
      ELSE EboLens_calls(s2, msg, k + 1, Append(responses, EboLens_ack(fc)))

EboLens_onmessage(s, msg) ==
  LET hasAudio == msg.audio # <<>> /\ s.outputCtx # "none"
      buffer == decodeAudioData(msg.audio)
      speaking == SetState(s, "isAiSpeaking", TRUE)
      a == IF hasAudio THEN Schedule(speaking, buffer) ELSE s
  IN  IF ~isActive(s) THEN Ran(s, msg, "ignored")
      ELSE IF hasAudio /\ ~buffer.ok THEN Ran(speaking, msg, "threw")
      ELSE IF msg.toolCall THEN EboLens_calls(a, msg, 1, <<>>)
      ELSE Ran(a, msg, "done")

\* The session delivers a message.
OnMessage(msg) ==
  /\ inst.link = "open"
  /\ events + Size(msg) <= MaxEvents
  /\ events' = events + Size(msg)
  /\ UNCHANGED <<mounts, earlier>>
  /\ Step("onmessage",
          IF comp = "LiveMode" THEN LiveMode_onmessage(Quiet(inst), Arrived(msg))
          ELSE EboLens_onmessage(Quiet(inst), Arrived(msg)))

\* ---------------------------------------------------------------- timers
\* The timer callback that leaves the flag alone.
EboLens_captureTimeout_noClear(s) == [s EXCEPT !.capTimers = @ - 1]

\* EboLens: setTimeout(() => setIsCapturing(false), 2000).
EboLens_captureTimeout(s) == SetState([s EXCEPT !.capTimers = @ - 1], "isCapturing", FALSE)

CaptureTimeout ==
  /\ inst.capTimers > 0
  /\ Step("captureTimeout", EboLens_captureTimeout(Quiet(inst)))
  /\ UNCHANGED <<mounts, earlier, events>>

\* a.download = `EBO_REC_${Date.now()}.webm`
RecordingName == <<"EBO_REC_", "Date.now()", ".webm">>

\* The timer that never stops the recorder.
EboLens_recorderTimeout_noStop(s, r) == s

\* EboLens: the timer of startRec finds its recorder recording and stops
\* it; the recorder (started without a timeslice) emits its data in one
\* chunk, which ondataavailable pushes to videoChunksRef.current, and then
\* recorder.onstop builds the blob from videoChunksRef.current, offers the
\* download and resets isRecording.
EboLens_recorderTimeout(s, r) ==
  SetState([s EXCEPT !.recorders[r].state = "inactive",
                     !.videoChunks = Append(@, r),
                     !.trace.downloads = Append(@, RecordingName),
                     !.trace.blobs = Append(@, [recorder |-> r,
                                                chunks |-> Append(s.videoChunks, r)])],
           "isRecording", FALSE)

RecorderTimeout(r) ==
  /\ r \in 1..Len(inst.recorders)
  /\ inst.recorders[r].state = "recording"
  /\ Step("recorderTimeout", EboLens_recorderTimeout(Quiet(inst), r))
  /\ UNCHANGED <<mounts, earlier, events>>

\* ------------------------------------------------------- the state machine
Next ==
  \/ Mount
  \/ GumResolve
  \/ GumReject
  \/ Unmount
  \/ SessionResolve
  \/ OnOpen
  \/ OnClose
  \/ OnError
  \/ \E frame \in Frames : OnAudioProcess(frame)
  \/ \E msg \in Messages : OnMessage(msg)
  \/ \E h \in 1..MaxEvents, ok \in BOOLEAN : SnapshotDone(h, ok)
  \/ \E d \in 1..MaxTime : Tick(d)
  \/ BufferEnded
  \/ CaptureTimeout
  \/ \E r \in 1..MaxEvents : RecorderTimeout(r)

Spec == Init /\ [][Next]_vars

\* A timer set with setTimeout fires: the timer of a recorder that is still
\* recording, and a pending setIsCapturing(false) timer, are eventually run
\* by the event loop.
FairSpec ==
  /\ Spec
  /\ \A r \in 1..MaxEvents : WF_vars(RecorderTimeout(r))
  /\ WF_vars(CaptureTimeout)

\* ------------------------------------------------- the codec, on its own
\* The PCM codec applied to one frame: createBlob (createAudioBlob) and then
\* decodeAudioData of what it produced.  The variable inst holds the frame,
\* the blob and the decoded buffer; comp says whose copy of the code runs.
\* Samples around 0, in mid-range and at both ends of [-1, 1].
Samples == {-Scale, 1 - Scale, -1, 0, 1, Scale \div 2, Scale - 1, Scale}

CodecFrames == SeqsUpTo(Samples, MaxSamples) \ {<<>>}

NoBuffer == [ok |-> FALSE, channelData |-> <<>>, duration |-> 0]

CodecInit ==
  /\ comp \in Components
  /\ inst \in [data : CodecFrames, blob : {NoMedia}, buffer : {NoBuffer}]
  /\ mounts = 0
  /\ earlier = NothingOpen
  /\ events = 0
  /\ last = "init"

CodecEncode ==
  /\ last = "init"
  /\ inst' = [inst EXCEPT !.blob = createBlob(inst.data)]
  /\ last' = "encode"
  /\ UNCHANGED <<comp, mounts, earlier, events>>

CodecDecode ==
  /\ last = "encode"
  /\ inst' = [inst EXCEPT !.buffer = decodeAudioData(inst.blob.data)]
  /\ last' = "decode"
  /\ UNCHANGED <<comp, mounts, earlier, events>>

CodecNext == CodecEncode \/ CodecDecode

CodecSpec == CodecInit /\ [][CodecNext]_vars

\* ================================================================ claims
IsToolResponse(p) == p.kind = "toolResponse"
IsAudio(p) == p.media.mimeType = "audio/pcm;rate=16000"

ToolResponsesIssued == SelectSeq(inst.trace.issued, IsToolResponse)
AudioOut == SelectSeq([k \in 1..Len(inst.trace.out) |-> inst.trace.out[k].pkt], IsAudio)

\* C1: when the onmessage call for a message that carries a tool-call batch
\* of K calls (received while the instance is active) ends, it has issued
\* exactly one tool response, of K acknowledgments, the k-th with the id and
\* the name of the k-th call.
C1_OneResponsePerBatch ==
  \A k \in 1..Len(inst.trace.handler) :
    LET h == inst.trace.handler[k]
        calls == h.msg.functionCalls
    IN  h.msg.toolCall /\ h.state \in {"done", "threw"} =>
          /\ Len(ToolResponsesIssued) = 1
          /\ Len(ToolResponsesIssued[1].functionResponses) = Len(calls)
          /\ \A c \in 1..Len(calls) :
               /\ ToolResponsesIssued[1].functionResponses[c].id = calls[c].id
               /\ ToolResponsesIssued[1].functionResponses[c].name = calls[c].name

\* C2: in LiveMode at most one of the overlay states navData, isAnalyzing,
\* generatedImage is set.
C2_OverlaysExclusive ==
  comp = "LiveMode" =>
    Cardinality({f \in {"navData", "isAnalyzing", "generatedImage"} : inst[f]}) <= 1

\* C3 as stated: every scheduled buffer starts exactly where the buffer
\* scheduled before it ends (start = previous start + previous duration),
\* whatever the device clock shows, and start times never decrease.
C3_AlwaysBackToBack ==
  \A k \in 1..Len(inst.trace.started) :
    LET b == inst.trace.started[k]
    IN  b.prev # <<>> =>
          /\ b.start >= b.prev[1].start
          /\ b.start = b.prev[1].start + b.prev[1].duration

\* C3 as amended: every scheduled buffer starts at the later of the end of
\* the buffer scheduled before it and the device time read when it is
\* scheduled; start times never decrease and buffers never overlap, and
\* there is no gap unless the device clock has passed the end of the
\* previous buffer.
C3_StartsAtEndOrClock ==
  \A k \in 1..Len(inst.trace.started) :
    LET b == inst.trace.started[k]
    IN  /\ b.prev = <<>> => b.start = b.at
        /\ b.prev # <<>> =>
             /\ b.start >= b.prev[1].start
             /\ b.start = Max(b.prev[1].start + b.prev[1].duration, b.at)

\* A second buffer is scheduled after the device clock has passed the end of
\* the first one.
C3_Witness ==
  \E k \in 1..Len(inst.trace.started) :
    LET b == inst.trace.started[k]
    IN  b.prev # <<>> /\ b.at > b.prev[1].start + b.prev[1].duration /\ b.duration > 0

\* C4: once the instance is torn down, no callback invokes or issues a
\* session send and none throws; a second teardown changes nothing.
C4_QuietAfterTeardown ==
  /\ inst.life = "torn" /\ last # "cleanup" =>
    /\ inst.trace.issued = <<>>
    /\ inst.trace.out = <<>>
    /\ ~inst.trace.threw
  /\ last = "cleanup" => Quiet(Cleanup(inst)) = Quiet(inst)

\* C5: the cleanup marks the instance inactive, stops the tracks, closes the
\* two audio contexts and closes the session handle, in this order; after
\* it the session handle is closed.
C5_TeardownClosesSession ==
  /\ inst.life = "torn" /\ inst.link # "none" => inst.link = "closed"
  /\ last = "cleanup" /\ inst.link # "none" =>
       inst.trace.cleanup = <<"inactive", "stopTracks", "closeInput", "closeOutput",
                              "closeSession">>

\* C6: while the instance is active and its session is connected, the N
\* frames delivered so far have produced exactly N audio packets, sent in
\* the order of the frames, each tagged audio/pcm;rate=16000 and holding
\* 2 * frameLength bytes under its base64 encoding.
C6_OnePacketPerFrame ==
  isActive(inst) /\ inst.promise = "resolved" =>
    /\ inst.audioOut = inst.frames
    /\ \A k \in 1..Len(AudioOut) :
         AudioOut[k].seq = inst.audioOut - Len(AudioOut) + k
    /\ \A k \in 1..Len(inst.trace.frame) :
         /\ Len(AudioOut) = 1
         /\ AudioOut[1].seq = inst.frames
         /\ AudioOut[1].media.mimeType = "audio/pcm;rate=16000"
         /\ atob(AudioOut[1].media.data).ok
         /\ Len(atob(AudioOut[1].media.data).bytes) = 2 * Len(inst.trace.frame[k].data)

\* Two frames were delivered before the session promise resolved, and their
\* packets have now been sent.
C6_Witness ==
  /\ isActive(inst) /\ inst.promise = "resolved"
  /\ last = "resolve"
  /\ Len(AudioOut) >= 2
  /\ inst.frames = inst.audioOut

\* C7: a frame delivered to the capture processor after the teardown leads
\* to no audio packet.
C7_NoPacketAfterStop ==
  \A k \in 1..Len(inst.trace.frame) :
    ~inst.trace.frame[k].active => inst.trace.issued = <<>> /\ inst.trace.out = <<>>

\* C8: in EboLens at most one MediaRecorder started by startRec is
\* recording at any time.
C8_OneRecorder ==
  Cardinality({r \in 1..Len(inst.recorders) : inst.recorders[r].state = "recording"}) <= 1

\* C9: no send is invoked on the session handle after the remote end closed
\* it or after the teardown.
C9_NoSendAfterClose ==
  \A k \in 1..Len(inst.trace.out) :
    ~inst.trace.out[k].closed /\ ~inst.trace.out[k].torn

\* C10: when a new instance starts, every session, stream and audio context
\* of the earlier instances is closed.
C10_OneOwner == earlier = NothingOpen

\* The acknowledgments of the tool responses issued in the step just taken.
AcksIssued ==
  Concat([k \in 1..Len(ToolResponsesIssued) |-> ToolResponsesIssued[k].functionResponses])

\* The state a tool call may change: overlays, capture and recording.
ToolState(s) ==
  <<s.navData, s.generatedImage, s.isAnalyzing, s.isCapturing, s.capTimers,
    s.isRecording, s.recorders, s.susp>>

\* Batches made of names no branch of the handler recognizes.
UnknownOnly ==
  {m \in Messages : m.calls # <<>> /\ \A k \in 1..Len(m.calls) : m.calls[k].name = "other"}

onmessage(s, msg) ==
  IF comp = "LiveMode" THEN LiveMode_onmessage(s, msg) ELSE EboLens_onmessage(s, msg)

\* C11 as stated: every acknowledgment issued, by LiveMode and by EboLens,
\* for a recognized name or not, carries the payload {status: "ok"}.
C11_AckStatusOk ==
  \A k \in 1..Len(AcksIssued) : AcksIssued[k].response = [status |-> "ok"]

\* C11 as amended: every acknowledgment carries the component's fixed
\* success payload, {status: "ok"} in LiveMode and {ok: true} in EboLens,
\* for a recognized name or not, and handling a batch of unrecognized names
\* changes no overlay, capture or recording state and sends no snapshot.
C11_AckOkPerComponent ==
  /\ \A k \in 1..Len(AcksIssued) :
       AcksIssued[k].response = IF comp = "LiveMode" THEN [status |-> "ok"]
                                ELSE [ok |-> TRUE]
  /\ inst.link = "open" =>
       \A m \in UnknownOnly :
         LET after == onmessage(Quiet(inst), Arrived(m))
         IN  /\ ToolState(after) = ToolState(inst)
             /\ \A k \in 1..Len(after.trace.issued) : IsToolResponse(after.trace.issued[k])

\* A batch holding an unrecognized name and a recognized one was handled
\* and acknowledged.
C11_Witness ==
  /\ last = "onmessage"
  /\ Len(AcksIssued) = 2
  /\ \E k \in 1..2 : AcksIssued[k].name = "other"
  /\ \E k \in 1..2 : AcksIssued[k].name # "other"

\* The names of the batch whose handler ended in the step just taken
\* (<<>> when none did, or when the instance was unmounted meanwhile).
HandledNames ==
  IF inst.trace.handler # <<>> /\ inst.trace.handler[1].state = "done" /\ isActive(inst)
  THEN [k \in 1..Len(inst.trace.handler[1].msg.functionCalls) |->
          inst.trace.handler[1].msg.functionCalls[k].name]
  ELSE <<>>

OneCall(name) ==
  [audio |-> <<>>, toolCall |-> TRUE, calls |-> <<[name |-> name, duration |-> 0]>>]

\* C12: in LiveMode, when the handler ends with startNavigation (also right
\* after generateHologram) generatedImage is null, and when it ends with
\* stopSystem, whatever was handled before, navData and generatedImage are
\* null and isAnalyzing is false.
C12_NavigationAndStopClear ==
  comp = "LiveMode" =>
    /\ HandledNames # <<>> /\ HandledNames[Len(HandledNames)] = "startNavigation" =>
         ~inst.generatedImage /\ inst.navData
    /\ HandledNames # <<>> /\ HandledNames[Len(HandledNames)] = "stopSystem" =>
         ~inst.navData /\ ~inst.generatedImage /\ ~inst.isAnalyzing
    /\ isActive(inst) /\ inst.link = "open" =>
         /\ ~LiveMode_onmessage(Quiet(inst), Arrived(OneCall("startNavigation"))).generatedImage
         /\ LET stopped == LiveMode_onmessage(Quiet(inst), Arrived(OneCall("stopSystem")))
            IN  ~stopped.navData /\ ~stopped.generatedImage /\ ~stopped.isAnalyzing

\* generateHologram and then startNavigation were handled in one batch.
C12_Witness ==
  /\ comp = "LiveMode"
  /\ HandledNames = <<"generateHologram", "startNavigation">>
  /\ ~inst.generatedImage

Abs(x) == IF x >= 0 THEN x ELSE -x

\* C13 (under CodecSpec): a frame of samples in [-1, 1], both ends
\* included, encoded by createBlob and decoded by decodeAudioData comes back
\* with as many samples, each within 1/32768 of the original.
C13_RoundTrip ==
  last = "decode" =>
    /\ inst.buffer.ok
    /\ Len(inst.buffer.channelData) = Len(inst.data)
    /\ \A k \in 1..Len(inst.data) :
         Abs(inst.buffer.channelData[k] - inst.data[k]) <= Scale \div 32768

\* The playback scheduler's state: cursor, device clock, sources.
Playback(s) == <<s.nextStartTime, s.now, s.lastSource, s.sources, s.outputCtx>>

AudioOnly(audio) == [audio |-> audio, toolCall |-> FALSE, calls |-> <<>>]

\* Messages with a malformed audio payload, alone or with one tool call.
Malformed == {m \in Messages : m.audio \in BadAudio /\ Len(m.calls) <= 1}

\* C14: a malformed audio payload (text that is not base64, or base64 of an
\* odd number of bytes) starts no source and leaves the cursor as it was,
\* and a well-formed fragment that arrives after it is scheduled exactly as
\* it would have been without it.
C14_MalformedSkipped ==
  /\ inst.trace.threw => inst.trace.started = <<>>
  /\ inst.link = "open" =>
       /\ \A m \in Malformed :
            LET after == onmessage(Quiet(inst), Arrived(m))
            IN  Playback(after) = Playback(inst) /\ after.trace.started = <<>>
       /\ \A bad \in BadAudio, good \in GoodAudio :
            LET after == Quiet(onmessage(Quiet(inst), Arrived(AudioOnly(bad))))
                with == onmessage(after, Arrived(AudioOnly(good)))
                without == onmessage(Quiet(inst), Arrived(AudioOnly(good)))
            IN  with.trace.started = without.trace.started /\ Playback(with) = Playback(without)

\* A malformed payload arrived after a buffer had been scheduled: the
\* handler threw and the cursor still points at the end of that buffer.
C14_Witness ==
  /\ last = "onmessage"
  /\ inst.trace.threw
  /\ inst.trace.handler[1].msg.audio \in BadAudio
  /\ inst.lastSource # <<>>
  /\ inst.nextStartTime = inst.lastSource[1].start + inst.lastSource[1].duration
  /\ inst.nextStartTime > 0

HardwareError == IF comp = "LiveMode" THEN "HW ERROR" ELSE "HW_ERROR"
InitialStatus == IF comp = "LiveMode" THEN "EBO ONLINE" ELSE "LINKING"

\* C15: once getUserMedia has rejected, the status of an active instance is
\* the hardware-error status from then on, no stream was obtained, no
\* session is connected and no capture processor is attached; an instance
\* unmounted meanwhile keeps the status it had.
C15_HardwareFaultIsFinal ==
  inst.gum = "rejected" =>
    /\ isActive(inst) => inst.status = HardwareError
    /\ inst.status \in {HardwareError, InitialStatus}
    /\ inst.link = "none" /\ inst.promise = "none" /\ ~inst.opened
    /\ inst.stream = "none" /\ ~inst.streamRef /\ ~inst.processor
    /\ inst.thenQ = <<>> /\ inst.audioOut = 0

\* getUserMedia rejected, and the instance has lived on since.
C15_Witness ==
  /\ inst.gum = "rejected"
  /\ isActive(inst)
  /\ last = "tick"
  /\ inst.status = HardwareError

Offline == IF comp = "LiveMode" THEN "OFFLINE" ELSE "LINK_CLOSED"
LinkError == IF comp = "LiveMode" THEN "ERROR" ELSE "LINK_LOST"

\* C16: the close event leaves the status of the (mounted) instance at the
\* offline status and the error event at the error status; an instance that
\* has connected a session never connects another one: a closed session
\* stays closed and the session promise is never replaced.
C16_Step ==
  /\ last' = "onclose" =>
       /\ inst'.link = "closed"
       /\ isActive(inst') => inst'.status = Offline
  /\ last' = "onerror" /\ isActive(inst') => inst'.status = LinkError
  /\ mounts' = mounts /\ inst.link # "none" =>
       /\ last' # "gotStream"
       /\ inst.link = "closed" => inst'.link = "closed"
       /\ inst'.link # "none"
       /\ inst.promise = "resolved" => inst'.promise = "resolved"
       /\ inst'.promise # "none"

C16_NoReconnect == [][C16_Step]_vars

\* The session was closed by the remote end and the capture processor has
\* delivered a frame since: the status is still the offline status.
C16_Witness ==
  /\ last = "onaudioprocess"
  /\ isActive(inst)
  /\ inst.link = "closed"
  /\ inst.status = Offline

Recording(r) == r <= Len(inst.recorders) /\ inst.recorders[r].state = "recording"

\* The record_video_clip calls of the batch whose handler ended in the step
\* just taken.
IsRecordCall(fc) == fc.name = "record_video_clip"
RecordCalls ==
  IF inst.trace.handler # <<>> /\ inst.trace.handler[1].state = "done"
  THEN SelectSeq(inst.trace.handler[1].msg.functionCalls, IsRecordCall)
  ELSE <<>>

\* What C17 says of each step: the timer of a recording started by startRec
\* runs for the requested number of seconds (10 when the call gives none);
\* the stop offers exactly one download, named EBO_REC_<epoch-ms>.webm, and
\* leaves isRecording false; nothing else offers a download.
C17_EachStop ==
  /\ last = "recorderTimeout" =>
       /\ inst.trace.downloads = <<RecordingName>>
       /\ isActive(inst) => ~inst.isRecording
  /\ last # "recorderTimeout" => inst.trace.downloads = <<>>
  /\ Len(RecordCalls) <= Len(inst.recorders)
  /\ \A k \in 1..Len(RecordCalls) :
       LET rec == inst.recorders[Len(inst.recorders) - Len(RecordCalls) + k]
           asked == RecordCalls[k].args.duration
       IN  rec.sec = IF asked = 0 THEN 10 ELSE asked

C18_ReadScheduleWrite ==
  /\ Len(inst.trace.started) <= 1
  /\ \A k \in 1..Len(inst.trace.started) :
       LET b == inst.trace.started[k]
       IN  /\ b.start = (IF b.cursor >= b.at THEN b.cursor ELSE b.at)
           /\ inst.nextStartTime = b.start + b.duration
           /\ inst.lastSource = <<[start |-> b.start, duration |-> b.duration]>>
           /\ b.cursor = IF b.prev = <<>> THEN 0
                         ELSE b.prev[1].start + b.prev[1].duration
  /\ inst.nextStartTime = IF inst.lastSource = <<>> THEN 0
                           ELSE inst.lastSource[1].start + inst.lastSource[1].duration

\* A fragment arrived while the buffer before it was still to play: it is
\* queued at the cursor, which lies ahead of the device clock.
C18_Witness ==
  /\ Len(inst.trace.started) = 1
  /\ inst.trace.started[1].prev # <<>>
  /\ inst.trace.started[1].cursor > inst.trace.started[1].at
  /\ inst.trace.started[1].at > 0
  /\ inst.trace.started[1].start = inst.trace.started[1].cursor

\* C19: the cursor of a new instance is 0 and no step of the instance
\* decreases it; a buffer scheduled by the step starts no earlier than the
\* device time read and no earlier than the cursor before the update, hence
\* no earlier than the end of the buffer scheduled before it.
C19_Step ==
  /\ last' = "mount" => inst'.nextStartTime = 0
  /\ mounts' = mounts => inst'.nextStartTime >= inst.nextStartTime
  /\ \A k \in 1..Len(inst'.trace.started) :
       LET b == inst'.trace.started[k]
       IN  /\ b.cursor = inst.nextStartTime
           /\ b.start >= b.at
           /\ b.start >= b.cursor
           /\ b.prev # <<>> => b.start >= b.prev[1].start + b.prev[1].duration
           /\ b.prev = inst.lastSource

C19_CursorMonotone == [][C19_Step]_vars

\* A second buffer of full length has been scheduled and the cursor has
\* moved past both.
C19_Witness ==
  /\ Len(inst.trace.started) = 1
  /\ inst.trace.started[1].prev # <<>>
  /\ inst.trace.started[1].duration = MaxSamples
  /\ inst.nextStartTime >= inst.trace.started[1].prev[1].duration + MaxSamples

\* The arrival stamp of a message that carries function calls.
Stamp(msg) == msg.functionCalls[1].id[1]

\* The handler that ran in the step just taken belongs to a message that
\* arrived after the message of the parked handler p.
RanLaterThan(h, p) ==
  /\ p.msg # h.msg
  /\ \/ last = "onmessage"
     \/ last = "snapshotDone" /\ Stamp(h.msg) > Stamp(p.msg)

\* C20: messages are handled in arrival order: while the handler of an
\* earlier message is suspended at an await, the handler of a later message
\* neither issues its tool response (the earlier one's is still to come) nor
\* starts its audio fragment ahead of the earlier message's fragment.
C20_ArrivalOrder ==
  \A k \in 1..Len(inst.trace.handler), j \in 1..Len(inst.susp) :
    RanLaterThan(inst.trace.handler[k], inst.susp[j]) =>
      /\ ToolResponsesIssued = <<>>
      /\ inst.susp[j].msg.audio # <<>> => inst.trace.started = <<>>

IsImage(p) == p.media.mimeType = "image/jpeg"
ImagesIssued == SelectSeq(inst.trace.issued, IsImage)

IsSnapshotCall(fc) == fc.name \in {"analyzeSurroundings", "capture_and_analyze"}

\* The snapshot calls of the message whose handler ran in the step just taken.
SnapshotCalls ==
  IF inst.trace.handler = <<>> THEN <<>>
  ELSE SelectSeq(inst.trace.handler[1].msg.functionCalls, IsSnapshotCall)

\* C21: a snapshot call handled while the video element and the canvas are
\* there issues exactly one image/jpeg packet, tagged with that call: in
\* EboLens one per capture_and_analyze of the batch when the handler ends,
\* in LiveMode one when the awaited snapshot of an analyzeSurroundings call
\* completes; without them no image is issued; the handler that ends has
\* acknowledged every call.
C21_OneImagePerSnapshot ==
  /\ comp = "EboLens" /\ last = "onmessage" /\ inst.trace.handler[1].state = "done" =>
       /\ Len(ImagesIssued) = Len(SnapshotCalls)
       /\ \A k \in 1..Len(SnapshotCalls) :
            ImagesIssued[k].media.data = <<"jpeg", SnapshotCalls[k].id>>
  /\ comp = "LiveMode" /\ last = "snapshotDone" =>
       /\ Len(ImagesIssued) = 1
       /\ \E k \in 1..Len(SnapshotCalls) :
            ImagesIssued[1].media.data = <<"jpeg", SnapshotCalls[k].id>>
  /\ comp = "LiveMode" /\ last = "onmessage" => ImagesIssued = <<>>
  /\ \A k \in 1..Len(inst.trace.handler) :
       inst.trace.handler[k].state \in {"done", "threw"}
       /\ inst.trace.handler[k].msg.toolCall /\ last = "snapshotDone" =>
         Len(AcksIssued) = Len(inst.trace.handler[k].msg.functionCalls)

IsCaptureCall(fc) == fc.name = "capture_and_analyze"

\* What C22 says of each state: in EboLens the handler that ends after a
\* capture_and_analyze call leaves isCapturing true, and while isCapturing
\* is true a timer that will clear it is pending.
C22_TimerPending ==
  comp = "EboLens" /\ isActive(inst) =>
    /\ last = "onmessage" /\ inst.trace.handler[1].state = "done"
       /\ SelectSeq(inst.trace.handler[1].msg.functionCalls, IsCaptureCall) # <<>> =>
         inst.isCapturing
    /\ inst.isCapturing => inst.capTimers > 0

\* C22 (under FairSpec): every capture_and_analyze call sets isCapturing
\* and starts a timer that clears it, whether or not anything else arrives:
\* isCapturing of a mounted instance is eventually false again.
C22_CapturingClears ==
  /\ []C22_TimerPending
  /\ (isActive(inst) /\ inst.isCapturing) ~> (~isActive(inst) \/ ~inst.isCapturing)

\* The timer of a capture_and_analyze call has cleared the flag.
C22_Witness ==
  /\ last = "captureTimeout"
  /\ isActive(inst)
  /\ ~inst.isCapturing
  /\ inst.capTimers = 0

\* C23: in LiveMode the isAnalyzing flag set by analyzeSurroundings is
\* cleared when the next turn begins, without a further tool call: once the
\* handler of a message that carries model-turn audio and no tool call has
\* ended, isAnalyzing is false.
C23_AnalyzingClearsOnTurn ==
  comp = "LiveMode" /\ last = "onmessage" /\ isActive(inst) =>
    \A k \in 1..Len(inst.trace.handler) :
      LET h == inst.trace.handler[k]
      IN  h.state = "done" /\ ~h.msg.toolCall /\ h.msg.audio # <<>> => ~inst.isAnalyzing

\* C24: a device stream that belongs to a torn-down instance has no running
\* track, in the instance the model follows and in the earlier ones; when
\* getUserMedia resolves after the teardown, the tracks of the stream it
\* delivers are stopped and no session is connected.
C24_NoStreamAfterTeardown ==
  /\ inst.life = "torn" => inst.stream # "running"
  /\ ~earlier.stream
  /\ inst.life = "torn" /\ last = "gotStream" =>
       inst.stream = "stopped" /\ inst.link = "none" /\ inst.promise = "none"

\* C25: a fault in one part of a message (the audio decode in EboLens, the
\* snapshot encoding in LiveMode) does not keep its tool calls from being
\* acknowledged: the handler that threw has still issued the tool response
\* of the batch, one acknowledgment per call.
C25_FaultStillAcknowledged ==
  \A k \in 1..Len(inst.trace.handler) :
    LET h == inst.trace.handler[k]
    IN  h.state = "threw" /\ h.msg.toolCall =>
          /\ ToolResponsesIssued # <<>>
          /\ Len(AcksIssued) = Len(h.msg.functionCalls)

\* C26: the blob offered for download when a recording stops holds exactly
\* the chunks its own MediaRecorder emitted, in the order of emission,
\* whatever record_video_clip calls came before.
C26_OwnChunksOnly ==
  \A k \in 1..Len(inst.trace.blobs) :
    inst.trace.blobs[k].chunks = <<inst.trace.blobs[k].recorder>>

\* The packets invoked on the session in a step, in order.
PacketsOut(s) == [k \in 1..Len(s.trace.out) |-> s.trace.out[k].pkt]

\* C27: the sends of an instance reach the session in the order they were
\* issued.  While the session promise is pending every send issued joins
\* the end of the waiting ones; its resolution invokes the waiting ones in
\* that order; once it is resolved every send is invoked as it is issued.
\* A handler issues the image packet of a snapshot call before the tool
\* response of its batch.
C27_Step ==
  /\ mounts' = mounts /\ inst'.promise = "pending" =>
       /\ inst'.thenQ = inst.thenQ \o inst'.trace.issued
       /\ inst'.trace.out = <<>>
  /\ last' = "resolve" =>
       /\ PacketsOut(inst') = inst.thenQ
       /\ inst'.thenQ = <<>>
  /\ last' # "resolve" /\ inst'.promise = "resolved" =>
       /\ PacketsOut(inst') = inst'.trace.issued
       /\ inst'.thenQ = <<>>
  /\ \A i, j \in 1..Len(inst'.trace.issued) :
       IsToolResponse(inst'.trace.issued[i]) /\ IsImage(inst'.trace.issued[j]) => j < i

C27_SendsInOrder == [][C27_Step]_vars

\* Issued while the promise was pending and now sent in that order: an
\* audio packet, then the image of a snapshot call, then the tool response.
C27_Witness ==
  /\ last = "resolve"
  /\ Len(inst.trace.out) = 3
  /\ IsAudio(inst.trace.out[1].pkt)
  /\ IsImage(inst.trace.out[2].pkt)
  /\ IsToolResponse(inst.trace.out[3].pkt)

\* C28: in EboLens isCapturing stays true until the timer of the most
\* recent capture_and_analyze call fires.  Timers of equal delay fire in the
\* order they were set, so when a call arrives while the timer of an earlier
\* call is pending and one timer then fires, it is the earlier one and the
\* flag set by the later call must still be true.  After the teardown a
\* timer changes nothing but its own disappearance.
C28_LatestCallHoldsFlag ==
  comp = "EboLens" =>
    /\ isActive(inst) /\ inst.link = "open" /\ inst.capTimers > 0 =>
         LET called == EboLens_onmessage(Quiet(inst), Arrived(OneCall("capture_and_analyze")))
             fired == EboLens_captureTimeout(Quiet(called))
         IN  fired.capTimers > 0 /\ fired.isCapturing
    /\ inst.life = "torn" /\ inst.capTimers > 0 =>
         EboLens_captureTimeout(inst) = [inst EXCEPT !.capTimers = @ - 1]

\* C29: in EboLens isAiSpeaking is true while a scheduled buffer has not
\* finished playing and false when no buffer is scheduled or playing (also
\* after a fragment that failed to decode).
C29_SpeakingIffPlaying ==
  comp = "EboLens" /\ isActive(inst) =>
    /\ (\E k \in 1..Len(inst.sources) :
          inst.sources[k].start + inst.sources[k].duration > inst.now) => inst.isAiSpeaking
    /\ inst.sources = <<>> => ~inst.isAiSpeaking

\* ------------------------------------------------ VisionStudio's camera
\* The camera handling of VisionStudio (src/unnamed/part_000), on its own.
\* The variable inst holds the component: its React state isLive, mode and
\* selectedDeviceId, whether streamRef.current holds a stream, the
\* getUserMedia calls of startCamera still pending, and the streams with
\* running tracks that streamRef.current no longer points to; events counts
\* the user's changes.
Devices == {"camA", "camB"}

VisionStudio ==
  [mounted |-> TRUE, isLive |-> FALSE, mode |-> "SCAN", selectedDeviceId |-> "",
   listed |-> FALSE,      \* enumerateDevices has resolved
   streamRef |-> FALSE,   \* streamRef.current is a stream (its tracks running)
   pending |-> 0,         \* getUserMedia promises of startCamera not yet settled
   unowned |-> 0]         \* running streams that streamRef.current does not hold

\* After the first render: both effects have run (isLive is false, so the
\* camera effect called stopCamera on an empty streamRef).
VisionInit ==
  /\ comp = "VisionStudio"
  /\ inst = VisionStudio
  /\ mounts = 1
  /\ earlier = NothingOpen
  /\ events = 0
  /\ last = "init"

stopCamera(s) == [s EXCEPT !.streamRef = FALSE]

\* startCamera up to its await: stopCamera(), then getUserMedia is pending.
startCamera(s) == [stopCamera(s) EXCEPT !.pending = @ + 1]

\* The camera effect after a render in which isLive, mode or
\* selectedDeviceId changed: the previous cleanup, then the effect body.
CameraEffect(s) ==
  IF s.isLive /\ s.mode = "SCAN" THEN startCamera(stopCamera(s))
  ELSE stopCamera(stopCamera(s))

\* A state setter followed by the render and its effects; nothing happens
\* when the value is unchanged or the component is unmounted.
VisionSet(s, field, value) ==
  IF ~s.mounted \/ s[field] = value THEN s
  ELSE CameraEffect([s EXCEPT ![field] = value])

VisionStep(op, new) ==
  /\ inst' = new
  /\ last' = op
  /\ UNCHANGED <<comp, mounts, earlier>>

\* The user toggles live view (also captureSnapshot and the file reader's
\* onload, which call setIsLive(false)).
SetIsLive(b) ==
  /\ inst.mounted /\ inst.isLive # b
  /\ events < MaxEvents
  /\ events' = events + 1
  /\ VisionStep("setIsLive", VisionSet(inst, "isLive", b))

SetMode(m) ==
  /\ inst.mounted /\ inst.mode # m
  /\ events < MaxEvents
  /\ events' = events + 1
  /\ VisionStep("setMode", VisionSet(inst, "mode", m))

SelectDevice(d) ==
  /\ inst.mounted /\ inst.selectedDeviceId # d
  /\ events < MaxEvents
  /\ events' = events + 1
  /\ VisionStep("selectDevice", VisionSet(inst, "selectedDeviceId", d))

\* enumerateDevices resolves: the first device is selected (the closure of
\* the first render sees selectedDeviceId = '').
GetDevices ==
  /\ ~inst.listed
  /\ UNCHANGED events
  /\ VisionStep("getDevices",
                VisionSet([inst EXCEPT !.listed = TRUE], "selectedDeviceId", "camA"))

\* getUserMedia of a startCamera call resolves: streamRef.current = stream.
\* The stream streamRef.current held before is not stopped.
startCamera_gotStream(s) ==
  [s EXCEPT !.pending = @ - 1, !.streamRef = TRUE,
            !.unowned = IF s.streamRef THEN @ + 1 ELSE @]

CameraGranted ==
  /\ inst.pending > 0
  /\ UNCHANGED events
  /\ VisionStep("gotStream", startCamera_gotStream(inst))

\* getUserMedia rejects: the catch block calls setIsLive(false).
startCamera_catch(s) == VisionSet([s EXCEPT !.pending = @ - 1], "isLive", FALSE)

CameraDenied ==
  /\ inst.pending > 0
  /\ UNCHANGED events
  /\ VisionStep("catch", startCamera_catch(inst))

\* Unmount: the cleanup of the camera effect.
VisionUnmount ==
  /\ inst.mounted
  /\ UNCHANGED events
  /\ VisionStep("cleanup", [stopCamera(inst) EXCEPT !.mounted = FALSE])

VisionNext ==
  \/ \E b \in BOOLEAN : SetIsLive(b)
  \/ \E m \in {"SCAN", "DREAM"} : SetMode(m)
  \/ \E d \in Devices : SelectDevice(d)
  \/ GetDevices
  \/ CameraGranted
  \/ CameraDenied
  \/ VisionUnmount

VisionSpec == VisionInit /\ [][VisionNext]_vars

\* The camera streams with running tracks.
RunningStreams == inst.unowned + (IF inst.streamRef THEN 1 ELSE 0)

\* C30 (under VisionSpec): at most one camera stream obtained by
\* startCamera has running tracks, and none has while isLive is false, mode
\* is not SCAN or the component is unmounted.
C30_OneCameraStream ==
  /\ RunningStreams <= 1
  /\ ~inst.isLive \/ inst.mode # "SCAN" \/ ~inst.mounted => RunningStreams = 0
====
